---- MODULE Spec2Model ----
(***************************************************************************)
(* Verification model of popcorn's stitching module                        *)
(* (src/popcorn/stitching.py) and of its intensity conversions             *)
(* (src/popcorn/resampling.py).                                            *)
(*                                                                         *)
(* The specifications share the variables below, one per function:         *)
(*   SpecGrid    rearrange_folders_list                                    *)
(*   SpecStitch  stitch_multiple_folders_into_one (one step per folder)    *)
(*   SpecBand    look_for_maximum_correlation_band and                     *)
(*               look_for_maximum_correlation                              *)
(*   SpecRow     the row assembly of multiple_tile_registration            *)
(*   SpecRead    the slice loop of that row assembly                       *)
(*   SpecLines   its registration of the combined lines                    *)
(*   SpecConcat  its concatenation of the registered lines                 *)
(*   SpecPlace   two_dimensions_stitching                                  *)
(*   SpecConvert the two conversions of resampling.py                      *)
(* Python lists are 0-based; the sequences here are 1-based, so the slice  *)
(* helpers take Python indices and translate them.                         *)
(***************************************************************************)
EXTENDS Integers, Sequences, FiniteSets, TLC

VARIABLES
    \* rearrange_folders_list
    starting_position, number_of_lines, number_of_columns,
    new_list_of_folders, grid_pc

grid_vars == <<starting_position, number_of_lines, number_of_columns,
               new_list_of_folders, grid_pc>>

VARIABLES
    \* stitch_multiple_folders_into_one: the arguments
    number_of_folders, nb_slices, delta_z, look_for_best_slice, copy_mode,
    security_band_size, overlap_mode, band_average_size, flip,
    \* its locals
    folder_nb, bottom_overlap_index, top_overlap_index, overlap_index_difference,
    \* its effects: files written to output_folder + '/' + name (emitted), files
    \* written to output_folder + name (band_files), source files renamed away
    \* (moved), and where the call stands (stitch_pc)
    emitted, band_files, moved, stitch_pc

stitch_args == <<number_of_folders, nb_slices, delta_z, look_for_best_slice, copy_mode,
                 security_band_size, overlap_mode, band_average_size, flip>>

stitch_vars == <<stitch_args, folder_nb, bottom_overlap_index, top_overlap_index,
                 overlap_index_difference, emitted, band_files, moved, stitch_pc>>

VARIABLES
    \* look_for_maximum_correlation_band: the arguments, the returned value and
    \* where the call stands
    first_image, second_image, band_size, with_segmentation,
    mask, best_slice_candidates, computed_corresponding_slice_nb, band_pc,
    \* look_for_maximum_correlation (on first_image and second_image): the
    \* returned value; and for both functions the array of scores as the last
    \* pass over the second image left it
    best_corresponding_slice_nb, normalized_cross_correlations

band_vars == <<first_image, second_image, band_size, with_segmentation,
               mask, best_slice_candidates, computed_corresponding_slice_nb, band_pc,
               best_corresponding_slice_nb, normalized_cross_correlations>>

VARIABLES
    \* multiple_tile_registration (with number_of_lines and number_of_columns
    \* above): arguments, locals, and where the call stands
    nb_of_slices, integer_values_for_offset, list_of_transformations,
    nb_line, list_of_z_offset, min_offset, row_slices, row_pc,
    \* the depth offsets as the registrations returned them (kept for reference:
    \* the row assembly overwrites them in list_of_transformations)
    registered_z,
    \* len(list_of_folders): the number of tile folders the listing found
    found_folders

row_vars == <<nb_of_slices, integer_values_for_offset, list_of_transformations,
              nb_line, list_of_z_offset, min_offset, row_slices, row_pc, registered_z,
              found_folders>>

VARIABLES
    \* the final concatenation of multiple_tile_registration (with
    \* number_of_lines above): the height of a line image, the overlap, the loop
    \* counter, and for every row of empty_image the (line, source row) pairs
    \* written to it
    ref_height, supposed_overlap, concat_nb_line, empty_image, concat_pc

concat_vars == <<ref_height, supposed_overlap, concat_nb_line, empty_image, concat_pc>>

VARIABLES
    \* the registration of the lines of multiple_tile_registration, steps 3 and 4
    \* (with number_of_lines and integer_values_for_offset above): the list of
    \* line-to-line transformations, the two loop counters of step 4, how far
    \* the line that is open has been displaced, and the displacement every
    \* registered_line_k was saved with
    line_transformations, registered_line_nb, nb_transformation, line_displacement,
    registered_lines, lines_pc

lines_vars == <<line_transformations, registered_line_nb, nb_transformation,
                line_displacement, registered_lines, lines_pc>>

VARIABLES
    \* resampling.py, the two intensity conversions applied one after the other
    \* to one pixel: the 16-bit input, the two parameters, the float result (its
    \* numerator over 65535), the 16-bit result, and where the round trip stands
    image_pixel, min_value, max_value, float_image, uint16_image, convert_pc

convert_vars == <<image_pixel, min_value, max_value, float_image, uint16_image,
                  convert_pc>>

VARIABLES
    \* two_dimensions_stitching: the arguments (the shapes of the two images and
    \* supposed_offset), the solved translation in half pixels, the shape of
    \* output_image, the placement branch taken (0 for none), whether ref_image
    \* was written into output_image, and where the call stands
    supposed_offset, ref_image_shape, moving_image_shape,
    transformation_parameters, output_image_shape, placement_case, ref_written,
    place_pc

place_vars == <<supposed_offset, ref_image_shape, moving_image_shape,
                transformation_parameters, output_image_shape, placement_case,
                ref_written, place_pc>>

VARIABLES
    \* the slice loop of the row assembly of multiple_tile_registration (with
    \* number_of_columns, nb_of_slices, list_of_z_offset and row_slices above):
    \* the two loop counters, the indices the tile's file list was indexed with in
    \* the latest pass, the line an IndexError was raised at (0 for none), and
    \* where the loop stands
    slice_nb, nb_col, read_indices, error_line, read_pc

read_vars == <<slice_nb, nb_col, read_indices, error_line, read_pc>>

vars == <<grid_vars, stitch_vars, band_vars, row_vars, concat_vars, lines_vars,
          convert_vars, place_vars, read_vars>>

----------------------------------------------------------------------------
\* Bounds of the model.
MaxLines == 4
MaxColumns == 4
MaxFolders == 3
MaxSlices == 5
MaxBandAverage == 3
MaxBandSize == 5
MaxRowColumns == 4
MaxHeight == 6
MaxOverlap == 4
MaxValue == 3
MaxOffset == 2
MaxSide == 2
MaxShift == 2
MaxReadColumns == 3
MaxReadSlices == 4

----------------------------------------------------------------------------
\* Python helpers.

Min(a, b) == IF a < b THEN a ELSE b
Max(a, b) == IF a > b THEN a ELSE b

\* A Python slice bound i on a list of length n, as a position in 0..n.
PyBound(n, i) == IF i < 0 THEN Max(n + i, 0) ELSE Min(i, n)

\* s[lo:hi] with Python's clamping and negative indices.
PySlice(s, lo, hi) ==
    LET a == PyBound(Len(s), lo)
        b == PyBound(Len(s), hi)
    IN  IF a < b THEN SubSeq(s, a + 1, b) ELSE <<>>

\* s[lo:] (the upper bound left out).
PySliceFrom(s, lo) ==
    LET a == PyBound(Len(s), lo)
    IN  SubSeq(s, a + 1, Len(s))

\* s[lo:hi] = t : the slice is replaced by t, whatever t's length.
PySliceAssign(s, lo, hi, t) ==
    LET a == PyBound(Len(s), lo)
        b == Max(a, PyBound(Len(s), hi))
    IN  SubSeq(s, 1, a) \o t \o SubSeq(s, b + 1, Len(s))

\* list(reversed(s))
Reversed(s) == [i \in 1..Len(s) |-> s[Len(s) + 1 - i]]

\* list(range(a, b))
PyRange(a, b) == [i \in 1..Max(b - a, 0) |-> a + i - 1]

----------------------------------------------------------------------------
\* rearrange_folders_list (stitching.py 331-363)

Corners == {"top-left", "top-right", "bottom-left", "bottom-right"}

HasLeftMutant(sp) == IF sp \in {"top-left", "bottom-left"} THEN 0 ELSE 1

HasBottomMutant(sp) == sp = "bottom-left"

\* ("left" in starting_position) * 1
HasLeft(sp) == IF sp \in {"top-left", "bottom-left"} THEN 1 ELSE 0

\* "bottom" in starting_position
HasBottom(sp) == sp \in {"bottom-left", "bottom-right"}

\* Body of the first loop for one nb_line: the row is reversed in place when
\* (nb_line + left) is even.
ReverseLineMutant(list, line, cols, left) ==
    IF (line + left) % 2 = 0
    THEN PySliceAssign(list, line * cols, line * cols + cols,
                       Reversed(PySlice(list, line * cols, line * cols + cols + 1)))
    ELSE list

ReverseLine(list, line, cols, left) ==
    IF (line + left) % 2 = 0
    THEN PySliceAssign(list, line * cols, line * cols + cols,
                       Reversed(PySlice(list, line * cols, line * cols + cols)))
    ELSE list

\* The first loop, for nb_line in range(from, lines).
RECURSIVE SerpentineFrom(_, _, _, _, _)
SerpentineFrom(list, from, lines, cols, left) ==
    IF from >= lines THEN list
    ELSE SerpentineFrom(ReverseLine(list, from, cols, left), from + 1, lines, cols, left)

\* Body of the second loop for one nb_line: row nb_line of the new list is
\* taken from the end of the serpentine list.
CopyLineFromEndMutant(new_list, list, line, cols) ==
    PySliceAssign(new_list, line * cols, line * cols + cols,
                  PySlice(list, -(line * cols + cols), -(line * cols)))

CopyLineFromEnd(new_list, list, line, cols) ==
    IF line * cols > 0
    THEN PySliceAssign(new_list, line * cols, line * cols + cols,
                       PySlice(list, -(line * cols + cols), -(line * cols)))
    ELSE PySliceAssign(new_list, line * cols, line * cols + cols,
                       PySliceFrom(list, -(line * cols + cols)))

\* list_of_folders as the first loop leaves it, before any bottom reordering.
Serpentine(sp, lines, cols) ==
    SerpentineFrom(PyRange(0, lines * cols), 0, lines, cols, HasLeft(sp))

RECURSIVE BottomFrom(_, _, _, _, _)
BottomFrom(new_list, list, from, lines, cols) ==
    IF from >= lines THEN new_list
    ELSE BottomFrom(CopyLineFromEnd(new_list, list, from, cols), list, from + 1, lines, cols)

rearrange_folders_list(sp, lines, cols) ==
    LET list_of_folders == SerpentineFrom(PyRange(0, lines * cols), 0, lines, cols, HasLeft(sp))
    IN  IF HasBottom(sp)
        THEN BottomFrom(PyRange(1, lines * cols + 1), list_of_folders, 0, lines, cols)
        ELSE list_of_folders

GridInit ==
    /\ starting_position \in Corners
    /\ number_of_lines \in 1..MaxLines
    /\ number_of_columns \in 1..MaxColumns
    /\ new_list_of_folders = <<>>
    /\ grid_pc = "call"

GridIdle ==
    /\ starting_position = "top-left"
    /\ number_of_lines = 1
    /\ number_of_columns = 1
    /\ new_list_of_folders = <<>>
    /\ grid_pc = "idle"

Rearrange ==
    /\ grid_pc = "call"
    /\ new_list_of_folders' =
           rearrange_folders_list(starting_position, number_of_lines, number_of_columns)
    /\ grid_pc' = "return"
    /\ UNCHANGED <<starting_position, number_of_lines, number_of_columns>>

----------------------------------------------------------------------------
\* stitch_multiple_folders_into_one (stitching.py 18-182)
\*
\* A folder is a number 0..number_of_folders-1 in the order list_of_folders.sort()
\* leaves; a slice file of a folder is its rank 0..nb_slices-1 in alphabetical
\* order.  Every folder of one acquisition holds nb_slices files.  An image is
\* reduced to one intensity, Pixel(folder, file).

\* int(x / 2): Python's true division followed by truncation towards zero.
IntHalf(x) == IF x >= 0 THEN x \div 2 ELSE -((-x) \div 2)

\* glob + sort of lines 49-55 and 62-68: the ranks in list order.
SortedFilenames(n, reverse) == IF reverse THEN Reversed(PyRange(0, n)) ELSE PyRange(0, n)

\* The intensity of a source slice (the input images).
Pixel(folder, file) == 20 * folder + 3 * file + 1

\* The band_size argument of the call on line 91.
CorrelationBandSize == 10

\* Line 91: look_for_maximum_correlation_band(bottom_band, top_band, 10, True)
\* returns only when the mask of the first band broadcasts over the second band
\* (lines 283-284) and every middle_slice_nb + i of line 299 indexes the first
\* band; otherwise it raises.
CorrelationRuns(nbb, nbt) ==
    /\ nbb >= 1
    /\ nbt >= 1
    /\ (nbb = nbt \/ nbt = 1)
    /\ \A i \in (-IntHalf(CorrelationBandSize))..(IntHalf(CorrelationBandSize) - 1) :
           /\ IntHalf(nbb) + i >= -nbb
           /\ IntHalf(nbb) + i <= nbb - 1

\* The values int(look_for_maximum_correlation_band(...)) can take on a first
\* band of nbb slices: every candidate is argmax - i with argmax in 0..nbb-1, and
\* the median of the candidates, truncated, ranges over the slice numbers.
OverlapIndices(nbb) == 0..(nbb - 1)

\* Lines 107-117, 122-133, 169-180: the loop over list_to_copy.  File
\* list_to_copy[slice_index] goes to output_folder/<basename>, the basename being
\* that of list_to_copy[-(slice_index + 1)] when flip is set.
CopyOrMove(folder, list_to_copy, fl) ==
    [i \in 1..Len(list_to_copy) |->
        [folder |-> folder,
         file   |-> list_to_copy[i],
         name   |-> IF fl THEN list_to_copy[Len(list_to_copy) + 1 - i] ELSE list_to_copy[i]]]

\* os.rename removes the source file, shutil.copy2 keeps it.
MovedBy(folder, list_to_copy, mode) ==
    IF mode = 0 THEN {<<folder, list_to_copy[i]>> : i \in 1..Len(list_to_copy)} ELSE {}

\* average_images_from_filenames (185-205).  The two sequences are added
\* element-wise with numpy's broadcasting of a one-slice sequence; the result is
\* kept as the sum, the division by 2 being done with the conversion to uint16
\* when the slice is saved (line 156).  Both modes compute the same.
AverageShapesAgree(first, second) ==
    \/ Len(first) = Len(second)
    \/ Len(first) = 1 /\ Len(second) >= 1
    \/ Len(second) = 1 /\ Len(first) >= 1

average_images_from_filenames(first_folder, first, second_folder, second, mode) ==
    [j \in 1..Max(Len(first), Len(second)) |->
        Pixel(first_folder, first[IF Len(first) = 1 THEN 1 ELSE j])
        + Pixel(second_folder, second[IF Len(second) = 1 THEN 1 ELSE j])]

\* slice_data.astype(np.uint16) of the halved sum.
AsUint16(sum) == (sum \div 2) % 65536

\* save_tif_image(..., output_filename): the file is created or overwritten.
SaveFile(files, folder, name, value) ==
    {r \in files : ~(r.folder = folder /\ r.name = name)}
        \cup {[folder |-> folder, name |-> name, value |-> value]}

\* Lines 154-156 for one filename: for i in range(i, band_average_size) the
\* slice averaged_image[i] is saved under the same output_filename.  The result
\* is the files and whether averaged_image[i] raised an IndexError.
RECURSIVE SaveSlices(_, _, _, _, _, _)
SaveSlices(files, folder, name, averaged_image, i, size) ==
    IF i >= size THEN [files |-> files, raised |-> FALSE]
    ELSE IF i >= Len(averaged_image) THEN [files |-> files, raised |-> TRUE]
    ELSE SaveSlices(SaveFile(files, folder, name, AsUint16(averaged_image[i + 1])),
                    folder, name, averaged_image, i + 1, size)

\* Lines 152-156: for filename in list_of_new_filenames[n:].
RECURSIVE SaveBand(_, _, _, _, _, _)
SaveBand(files, folder, list_of_new_filenames, n, averaged_image, size) ==
    IF n >= Len(list_of_new_filenames) THEN [files |-> files, raised |-> FALSE]
    ELSE LET one == SaveSlices(files, folder, list_of_new_filenames[n + 1],
                               averaged_image, 0, size)
         IN  IF one.raised THEN one
             ELSE SaveBand(one.files, folder, list_of_new_filenames, n + 1,
                           averaged_image, size)

SupposedTopMutant(n, dz) == IntHalf(n - dz) + 1

\* Lines 71-72.
SupposedTop(n, dz) == IntHalf(n - dz)
SupposedBottom(n, dz) == n - IntHalf(n - dz)

\* Line 168: the slices of the last folder that are copied.
RemainingFiles(filenames, top) == PySlice(filenames, top, -1)

SecurityBandSizes == {-1, 0, 1, 5}
SliceCounts == (1..MaxSlices) \cup {9, 10, 11}

StitchInit ==
    /\ number_of_folders \in 1..MaxFolders
    /\ nb_slices \in SliceCounts
    /\ delta_z \in 0..(nb_slices + 1)
    /\ look_for_best_slice \in BOOLEAN
    /\ copy_mode \in {0, 1}
    /\ security_band_size \in SecurityBandSizes
    /\ overlap_mode \in {0, 1, 2}
    /\ band_average_size \in 0..MaxBandAverage
    /\ flip \in BOOLEAN
    /\ folder_nb = 0
    /\ bottom_overlap_index = 0
    /\ top_overlap_index = 0
    /\ overlap_index_difference = 0
    /\ emitted = <<>>
    /\ band_files = {}
    /\ moved = {}
    /\ stitch_pc = "loop"

StitchIdle ==
    /\ number_of_folders = 1
    /\ nb_slices = 1
    /\ delta_z = 0
    /\ look_for_best_slice = FALSE
    /\ copy_mode = 0
    /\ security_band_size = 1
    /\ overlap_mode = 0
    /\ band_average_size = 0
    /\ flip = FALSE
    /\ folder_nb = 0
    /\ bottom_overlap_index = 0
    /\ top_overlap_index = 0
    /\ overlap_index_difference = 0
    /\ emitted = <<>>
    /\ band_files = {}
    /\ moved = {}
    /\ stitch_pc = "idle"

\* The end of one pass of the loop (line 182) and of the loop.
NextFolder ==
    /\ folder_nb' = folder_nb + 1
    /\ stitch_pc' = IF folder_nb + 1 < number_of_folders THEN "loop" ELSE "done"

\* Lines 99-161 once overlap_index_difference is known.
Composite(difference) ==
    LET bottom_image_filenames == SortedFilenames(nb_slices, flip)
        top_image_filenames == SortedFilenames(nb_slices, flip)
        supposed_top_overlap_slice == SupposedTop(nb_slices, delta_z)
        bottom == SupposedBottom(nb_slices, delta_z) + difference
        list_to_copy == PySlice(bottom_image_filenames, top_overlap_index, bottom)
        half == IntHalf(band_average_size)
        bottom_average_filenames == PySlice(bottom_image_filenames, bottom - half, bottom + half)
        top_average_filenames ==
            PySlice(top_image_filenames, supposed_top_overlap_slice + difference - half,
                    supposed_top_overlap_slice + difference + half)
        now_moved == moved \cup MovedBy(folder_nb, list_to_copy, copy_mode)
        \* open_sequence of a file that has been renamed away fails
        missing ==
            \/ \E j \in 1..Len(bottom_average_filenames) :
                   <<folder_nb, bottom_average_filenames[j]>> \in now_moved
            \/ \E j \in 1..Len(top_average_filenames) :
                   <<folder_nb + 1, top_average_filenames[j]>> \in now_moved
        averaged_image ==
            average_images_from_filenames(folder_nb, bottom_average_filenames,
                                          folder_nb + 1, top_average_filenames, overlap_mode)
        saved == SaveBand(band_files, folder_nb, bottom_average_filenames, 0,
                          averaged_image, band_average_size)
    IN  /\ overlap_index_difference' = difference
        /\ bottom_overlap_index' = bottom
        /\ emitted' = emitted \o CopyOrMove(folder_nb, list_to_copy, flip)
        /\ moved' = now_moved
        /\ IF overlap_mode = 0
           THEN /\ top_overlap_index' = supposed_top_overlap_slice
                /\ band_files' = band_files
                /\ NextFolder
           ELSE IF missing
                    \/ ~AverageShapesAgree(bottom_average_filenames, top_average_filenames)
           THEN /\ stitch_pc' = "exception"
                /\ UNCHANGED <<top_overlap_index, band_files, folder_nb>>
           ELSE IF saved.raised
           THEN /\ stitch_pc' = "exception"
                /\ band_files' = saved.files
                /\ UNCHANGED <<top_overlap_index, folder_nb>>
           ELSE /\ band_files' = saved.files
                /\ top_overlap_index' = supposed_top_overlap_slice + difference + half
                /\ NextFolder

\* One pass of the loop for a folder that has a next folder, lines 60-161.
StitchPair ==
    /\ stitch_pc = "loop"
    /\ folder_nb < number_of_folders - 1
    /\ security_band_size > 0
    /\ LET bottom_image_filenames == SortedFilenames(nb_slices, flip)
           top_image_filenames == SortedFilenames(nb_slices, flip)
           supposed_bottom_overlap_slice == SupposedBottom(nb_slices, delta_z)
           supposed_top_overlap_slice == SupposedTop(nb_slices, delta_z)
           bottom_band_filenames ==
               PySlice(bottom_image_filenames,
                       supposed_bottom_overlap_slice - security_band_size,
                       supposed_bottom_overlap_slice + security_band_size)
           top_band_filenames ==
               PySlice(top_image_filenames,
                       supposed_top_overlap_slice - security_band_size,
                       supposed_top_overlap_slice + security_band_size)
       IN  IF ~look_for_best_slice
           THEN Composite(0)
           ELSE IF ~CorrelationRuns(Len(bottom_band_filenames), Len(top_band_filenames))
           THEN /\ stitch_pc' = "exception"
                /\ UNCHANGED <<folder_nb, bottom_overlap_index, top_overlap_index,
                               overlap_index_difference, emitted, band_files, moved>>
           ELSE \E overlap_index \in OverlapIndices(Len(bottom_band_filenames)) :
                    Composite(security_band_size - overlap_index)
    /\ UNCHANGED stitch_args

\* Lines 163-165: sys.exit("Please use a security_band_size > 0").
StitchExit ==
    /\ stitch_pc = "loop"
    /\ folder_nb < number_of_folders - 1
    /\ ~(security_band_size > 0)
    /\ stitch_pc' = "sys_exit"
    /\ UNCHANGED <<stitch_args, folder_nb, bottom_overlap_index, top_overlap_index,
                   overlap_index_difference, emitted, band_files, moved>>

\* Lines 166-180: the last folder.
StitchLast ==
    /\ stitch_pc = "loop"
    /\ ~(folder_nb < number_of_folders - 1)
    /\ LET bottom_image_filenames == SortedFilenames(nb_slices, flip)
           list_to_copy == RemainingFiles(bottom_image_filenames, top_overlap_index)
       IN  /\ emitted' = emitted \o CopyOrMove(folder_nb, list_to_copy, flip)
           /\ moved' = moved \cup MovedBy(folder_nb, list_to_copy, copy_mode)
    /\ NextFolder
    /\ UNCHANGED <<stitch_args, bottom_overlap_index, top_overlap_index,
                   overlap_index_difference, band_files>>

----------------------------------------------------------------------------
\* look_for_maximum_correlation_band (stitching.py 256-328)
\*
\* An image is a sequence of slices, a slice the sequence of its width * height
\* intensities.  Means and standard deviations
\* are kept as exact integers: a centred slice x - mean(x) is held multiplied by
\* the number of pixels the mean was taken over, which changes no normalised
\* cross-correlation, and a score sum / (std * std) is held as its numerator and
\* the squared denominator.  Division by a zero standard deviation gives numpy's
\* nan (0/0) or +-inf, and the mean of no pixel is nan.

RECURSIVE SumSeq(_)
SumSeq(x) == IF x = <<>> THEN 0 ELSE x[1] + SumSeq(Tail(x))

\* x * y, element-wise, for two slices or a mask and a slice.
Times(x, y) == [p \in 1..Len(x) |-> x[p] * y[p]]

\* P^2 times the variance numpy.std computes of y (std is its square root).
VarianceP2(y) == Len(y) * SumSeq(Times(y, y)) - SumSeq(y) * SumSeq(y)

\* Lines 293-294 and 307: slice - np.mean(slice), times the pixel count.
CentreAll(x) == [nan |-> FALSE, y |-> [p \in 1..Len(x) |-> Len(x) * x[p] - SumSeq(x)]]

\* Lines 290-291 and 302-304: mask * (slice - np.mean(slice[slice > 0.0])), times
\* the number of positive pixels; nan when the slice has no positive pixel.
CentreMasked(x, slice_mask) ==
    LET positive == {p \in 1..Len(x) : x[p] > 0}
        sum == SumSeq([p \in 1..Len(x) |-> IF x[p] > 0 THEN x[p] ELSE 0])
    IN  IF positive = {}
        THEN [nan |-> TRUE, y |-> [p \in 1..Len(x) |-> 0]]
        ELSE [nan |-> FALSE,
              y |-> [p \in 1..Len(x) |-> slice_mask[p] * (Cardinality(positive) * x[p] - sum)]]

\* Lines 314-320: sum_of_multiplied_images / (std * std) / (width * height).
NormalizedCrossCorrelation(f, g) ==
    LET sum == SumSeq(Times(f.y, g.y))
        den2 == VarianceP2(f.y) * VarianceP2(g.y)
    IN  IF f.nan \/ g.nan THEN [kind |-> "nan", s |-> 0, v |-> 1]
        ELSE IF den2 = 0
        THEN [kind |-> IF sum = 0 THEN "nan" ELSE IF sum > 0 THEN "+inf" ELSE "-inf",
              s |-> 0, v |-> 1]
        ELSE [kind |-> "finite", s |-> sum, v |-> den2]

\* a > b for two scores that are not nan.
Greater(a, b) ==
    IF a.kind = "+inf" THEN b.kind # "+inf"
    ELSE IF a.kind = "-inf" THEN FALSE
    ELSE IF b.kind = "+inf" THEN FALSE
    ELSE IF b.kind = "-inf" THEN TRUE
    ELSE IF a.s >= 0 /\ b.s < 0 THEN TRUE
    ELSE IF a.s < 0 /\ b.s >= 0 THEN FALSE
    ELSE IF a.s >= 0 THEN a.s * a.s * b.v > b.s * b.s * a.v
    ELSE a.s * a.s * b.v < b.s * b.s * a.v

\* np.argmax: the first nan if there is one, else the first maximum (0-based).
ArgMax(scores) ==
    LET n == Len(scores)
        nans == {j \in 1..n : scores[j].kind = "nan"}
        best == {j \in 1..n : \A k \in 1..n : ~Greater(scores[k], scores[j])}
        first(S) == CHOOSE j \in S : \A k \in S : j <= k
    IN  (IF nans # {} THEN first(nans) ELSE first(best)) - 1

\* The k-th smallest entry of a sequence (k from 1).
KthSmallest(seq, k) ==
    CHOOSE v \in {seq[j] : j \in 1..Len(seq)} :
        /\ Cardinality({j \in 1..Len(seq) : seq[j] < v}) < k
        /\ Cardinality({j \in 1..Len(seq) : seq[j] <= v}) >= k

\* np.median, times 2 (the mean of the two middle entries of an even count).
MedianMutant(seq) ==
    LET n == Len(seq)
    IN  2 * KthSmallest(seq, 1)

Median2(seq) ==
    LET n == Len(seq)
    IN  IF n % 2 = 1 THEN 2 * KthSmallest(seq, (n + 1) \div 2)
        ELSE KthSmallest(seq, n \div 2) + KthSmallest(seq, n \div 2 + 1)

\* Line 298: range(int(-band_size / 2), int(band_size / 2)).
BandOffsets(size) == PyRange(-IntHalf(size), IntHalf(size))

\* Line 299: first_image_copy[middle_slice_nb + i]; a negative index counts from
\* the end, an index outside the image raises IndexError.
IndexInRange(n, index) == index >= -n /\ index <= n - 1
PyIndex(n, index) == IF index < 0 THEN n + index + 1 ELSE index + 1

\* Lines 279, 281: filters.threshold_otsu of a set of intensities.  The
\* threshold of skimage lies in the range of the data and below its maximum, so
\* the mask it gives is {x > v} for an intensity v of the data below the maximum
\* (v itself when the data hold one value).
OtsuThresholds(values) ==
    IF Cardinality(values) = 1 THEN values
    ELSE {v \in values : \E w \in values : w > v}

PixelsOf(image) == {image[z][p] : z \in 1..Len(image), p \in 1..Len(image[1])}
NumberAbove(image, thresh) ==
    Cardinality({<<z, p>> \in (1..Len(image)) \X (1..Len(image[1])) : image[z][p] > thresh})

\* Lines 282-284: mask = first_image_copy > thresh, as 0/1.
MaskOf(image, thresh) ==
    [z \in 1..Len(image) |-> [p \in 1..Len(image[z]) |-> IF image[z][p] > thresh THEN 1 ELSE 0]]

\* Lines 286-328 once the mask is known (a mask of ones and no masking when
\* with_segmentation is off).  The result holds the candidates array, twice the
\* median, the scores of the last offset and whether an IndexError was raised.
CorrelateBands(first, second, size, segmentation, the_mask) ==
    LET nb == Len(first)
        middle_slice_nb == IntHalf(nb)
        first_image_copy == IF segmentation
                            THEN [z \in 1..nb |-> Times(the_mask[z], first[z])]
                            ELSE first
        centered_second_image ==
            [z \in 1..nb |->
                IF segmentation
                THEN CentreMasked(Times(the_mask[z], second[z]), the_mask[z])
                ELSE CentreAll(second[z])]
        offsets == BandOffsets(size)
        FirstSlice(i) ==
            LET z == PyIndex(nb, middle_slice_nb + i)
            IN  IF segmentation THEN CentreMasked(first_image_copy[z], the_mask[z])
                ELSE CentreAll(first_image_copy[z])
        Scores(i) ==
            [z \in 1..nb |->
                NormalizedCrossCorrelation(FirstSlice(i), centered_second_image[z])]
        Best(i) == ArgMax(Scores(i)) - i
        filled == [j \in 1..size |->
                      IF j <= Len(offsets) THEN Best(offsets[j]) ELSE 0]
    IN  IF \E j \in 1..Len(offsets) : ~IndexInRange(nb, middle_slice_nb + offsets[j])
        THEN [raised |-> TRUE, candidates |-> <<>>, median2 |-> 0, scores |-> <<>>]
        ELSE [raised |-> FALSE, candidates |-> filled, median2 |-> Median2(filled),
              scores |-> IF offsets = <<>> THEN <<>>
                         ELSE Scores(offsets[Len(offsets)])]

\* look_for_maximum_correlation (stitching.py 208-253): the middle slice of the
\* first image against every slice of the second one.
MiddleScores(first, second) ==
    LET first_image_middle_slice == CentreAll(first[IntHalf(Len(first)) + 1])
    IN  [z \in 1..Len(second) |->
            NormalizedCrossCorrelation(first_image_middle_slice, CentreAll(second[z]))]

look_for_maximum_correlation(first, second) == ArgMax(MiddleScores(first, second))

Palette == {<<1, 2, 3>>, <<3, 1, 2>>, <<2, 3, 1>>, <<2, 1, 3>>, <<2, 4, 6>>, <<3, 3, 3>>}
BandLengths == {1, 2, 3, 4}

BandInit ==
    /\ \E n \in BandLengths :
           /\ first_image \in [1..n -> Palette]
           /\ second_image \in {first_image, Reversed(first_image),
                                [z \in 1..n |-> first_image[1]]}
    /\ band_size \in 1..MaxBandSize
    /\ with_segmentation \in BOOLEAN
    /\ mask = <<>>
    /\ best_slice_candidates = <<>>
    /\ computed_corresponding_slice_nb = 0
    /\ best_corresponding_slice_nb = 0
    /\ normalized_cross_correlations = <<>>
    /\ band_pc = "call"

BandIdle ==
    /\ first_image = <<>>
    /\ second_image = <<>>
    /\ band_size = 1
    /\ with_segmentation = FALSE
    /\ mask = <<>>
    /\ best_slice_candidates = <<>>
    /\ computed_corresponding_slice_nb = 0
    /\ best_corresponding_slice_nb = 0
    /\ normalized_cross_correlations = <<>>
    /\ band_pc = "idle"

BandReturn(result) ==
    /\ best_slice_candidates' = result.candidates
    /\ computed_corresponding_slice_nb' = result.median2
    /\ normalized_cross_correlations' = result.scores
    /\ band_pc' = IF result.raised THEN "IndexError" ELSE "return"
    /\ UNCHANGED best_corresponding_slice_nb

\* The call without thresholding.
CorrelatePlain ==
    /\ band_pc = "call"
    /\ ~with_segmentation
    /\ mask' = [z \in 1..Len(first_image) |-> [p \in 1..Len(first_image[z]) |-> 0]]
    /\ BandReturn(CorrelateBands(first_image, second_image, band_size, FALSE, mask'))
    /\ UNCHANGED <<first_image, second_image, band_size, with_segmentation>>

\* The call with thresholding, lines 278-284: Otsu's threshold of the pixels
\* above 15% of the maximum, taken again over the whole image when fewer than
\* 0.5% of the pixels pass it.
CorrelateSegmented ==
    /\ band_pc = "call"
    /\ with_segmentation
    /\ LET amax == CHOOSE v \in PixelsOf(first_image) : \A w \in PixelsOf(first_image) : w <= v
           top == {v \in PixelsOf(first_image) : 100 * v > 15 * amax}
       IN  /\ top # {}
           /\ \E first_thresh \in OtsuThresholds(top) :
                  \E thresh \in (IF 1000 * NumberAbove(first_image, first_thresh)
                                        < 5 * Len(first_image) * Len(first_image[1])
                                 THEN OtsuThresholds(PixelsOf(first_image))
                                 ELSE {first_thresh}) :
                      /\ mask' = MaskOf(first_image, thresh)
                      /\ BandReturn(CorrelateBands(first_image, second_image, band_size,
                                                   TRUE, mask'))
    /\ UNCHANGED <<first_image, second_image, band_size, with_segmentation>>

\* The call of look_for_maximum_correlation on the two images.
CorrelateMiddle ==
    /\ band_pc = "call"
    /\ normalized_cross_correlations' = MiddleScores(first_image, second_image)
    /\ best_corresponding_slice_nb' = look_for_maximum_correlation(first_image, second_image)
    /\ band_pc' = "return_middle"
    /\ UNCHANGED <<first_image, second_image, band_size, with_segmentation, mask,
                   best_slice_candidates, computed_corresponding_slice_nb>>

----------------------------------------------------------------------------
\* multiple_tile_registration, registration of the column pairs and row
\* assembly (stitching.py 513-570)
\*
\* Offsets are real numbers in the source; here they are integers counting
\* thousandths (3.12 is 3120).  A transformation is its offset <<x, y, z>>.

Unit == 1000

\* Python's round(): to the nearest integer, a tie going to the even one.
PyRound(v) ==
    LET q == v \div Unit
        r == v % Unit
    IN  IF 2 * r < Unit THEN q
        ELSE IF 2 * r > Unit THEN q + 1
        ELSE IF q % 2 = 0 THEN q ELSE q + 1

\* The result of registering one pair of neighbouring tiles (lines 524-538):
\* compute_two_tiles_registration, for which the source at present substitutes
\* the rows of manual_transforms, (0.126, +-2.12, +-3.12).  The depth component
\* ranges over the table's values and over the whole-slice offsets -1 and +3.
ZOffsets == {-3120, -1000, 3000, 3120}
Registrations == {<<126, -2120, z>> : z \in ZOffsets}

\* Lines 542-545: integer offsets when asked for.
RoundedOffset(t, integer) ==
    IF integer
    THEN <<PyRound(t[1]) * Unit, PyRound(t[2]) * Unit, PyRound(t[3]) * Unit>>
    ELSE t

RECURSIVE MinOf(_)
MinOf(seq) == IF Len(seq) = 1 THEN seq[1] ELSE Min(seq[1], MinOf(Tail(seq)))
RECURSIVE MaxOf(_)
MaxOf(seq) == IF Len(seq) = 1 THEN seq[1] ELSE Max(seq[1], MaxOf(Tail(seq)))

\* Lines 556-565 for transformation_nb in range(from, columns - 1): the depth
\* offset of the pair is appended to list_of_z_offset, and the last entry is then
\* replaced by the sum of the whole list.  (Line 559 reaches the offset through
\* .GetOffset()[-1].GetOffset(); it is read here as the transformation's offset.)
ChainedEntry(list, z) == SumSeq(Append(list, z))

RECURSIVE ChainFrom(_, _, _, _, _)
ChainFrom(list, transformations, line, from, columns) ==
    IF from >= columns - 1 THEN list
    ELSE LET transformation_offset == transformations[line * (columns - 1) + from + 1]
         IN  ChainFrom(Append(list, ChainedEntry(list, transformation_offset[3])),
                       transformations, line, from + 1, columns)

\* Lines 561-564: the depth component of the row's transformations is set to 0.
WithoutDepth(transformations, line, columns) ==
    [n \in 1..Len(transformations) |->
        IF n > line * (columns - 1) /\ n <= (line + 1) * (columns - 1)
        THEN <<transformations[n][1], transformations[n][2], 0>>
        ELSE transformations[n]]

\* Line 567.
Normalized(list) == [k \in 1..Len(list) |-> list[k] - MinOf(list)]

\* Line 570: the number of output slices of the row,
\* nb_of_slices + round(max(list_of_z_offset)).
RowSlicesMutant(depth, list) == depth + PyRound(list[Len(list)])

RowSlices(depth, list) == depth + PyRound(MaxOf(list))

RowLineCounts == {1, 2}
\* What glob can return for a grid of `tiles` tiles: nothing, one folder too
\* few, the right number, one too many.
FolderCounts(tiles) == {0, tiles} \cup {n \in {tiles - 1, tiles + 1} : n >= 0}
SliceDepths == {3, 100}

RowInit ==
    /\ number_of_lines \in RowLineCounts
    /\ number_of_columns \in 1..MaxRowColumns
    /\ starting_position = "top-left"
    /\ new_list_of_folders = <<>>
    /\ grid_pc = "idle"
    /\ nb_of_slices \in SliceDepths
    /\ integer_values_for_offset \in BOOLEAN
    /\ list_of_transformations = <<>>
    /\ registered_z = <<>>
    /\ nb_line = 0
    /\ list_of_z_offset = <<>>
    /\ min_offset = 0
    /\ row_slices = 0
    /\ found_folders \in FolderCounts(number_of_lines * number_of_columns)
    /\ row_pc = "call"

RowIdle ==
    /\ nb_of_slices = 0
    /\ integer_values_for_offset = FALSE
    /\ list_of_transformations = <<>>
    /\ registered_z = <<>>
    /\ nb_line = 0
    /\ list_of_z_offset = <<>>
    /\ min_offset = 0
    /\ row_slices = 0
    /\ found_folders = 0
    /\ row_pc = "idle"

\* Lines 486-508: the grid order is computed, the folders are listed and the
\* first image of the first folder is opened as the reference.  Indexing an
\* empty listing raises IndexError; the length of the listing is not compared
\* with the size of the grid.
ListFolders ==
    /\ row_pc = "call"
    /\ row_pc' = IF found_folders = 0 THEN "IndexError" ELSE "register"
    /\ UNCHANGED <<number_of_lines, number_of_columns, starting_position,
                   new_list_of_folders, grid_pc, nb_of_slices, integer_values_for_offset,
                   list_of_transformations, registered_z, nb_line, list_of_z_offset,
                   min_offset, row_slices, found_folders>>

\* Lines 515-547, one pass of the inner loop: the next pair of neighbouring
\* tiles is registered and its transformation appended.
RegisterPair ==
    /\ row_pc = "register"
    /\ Len(list_of_transformations) < number_of_lines * (number_of_columns - 1)
    /\ \E transformation \in Registrations :
           LET kept == RoundedOffset(transformation, integer_values_for_offset)
           IN  /\ list_of_transformations' = Append(list_of_transformations, kept)
               /\ registered_z' = Append(registered_z, kept[3])
    /\ UNCHANGED <<number_of_lines, number_of_columns, starting_position,
                   new_list_of_folders, grid_pc, nb_of_slices, integer_values_for_offset,
                   nb_line, list_of_z_offset, min_offset, row_slices, row_pc,
                   found_folders>>

\* The end of the registration loops.
StartAssembly ==
    /\ row_pc = "register"
    /\ Len(list_of_transformations) = number_of_lines * (number_of_columns - 1)
    /\ row_pc' = "assemble"
    /\ UNCHANGED <<number_of_lines, number_of_columns, starting_position,
                   new_list_of_folders, grid_pc, nb_of_slices, integer_values_for_offset,
                   list_of_transformations, registered_z, nb_line, list_of_z_offset,
                   min_offset, row_slices, found_folders>>

\* Lines 553-570 for one nb_line: the depth offsets of the row are chained and
\* normalised, and the number of slices of the row is fixed.
AssembleRow ==
    /\ row_pc = "assemble"
    /\ nb_line < number_of_lines
    /\ LET chained == ChainFrom(<<0>>, list_of_transformations, nb_line, 0, number_of_columns)
       IN  /\ min_offset' = MinOf(chained)
           /\ list_of_z_offset' = Normalized(chained)
           /\ row_slices' = RowSlices(nb_of_slices, Normalized(chained))
    /\ list_of_transformations' = WithoutDepth(list_of_transformations, nb_line, number_of_columns)
    /\ nb_line' = nb_line + 1
    /\ row_pc' = IF nb_line + 1 < number_of_lines THEN "assemble" ELSE "assembled"
    /\ UNCHANGED <<number_of_lines, number_of_columns, starting_position,
                   new_list_of_folders, grid_pc, nb_of_slices, integer_values_for_offset,
                   registered_z, found_folders>>

----------------------------------------------------------------------------
\* multiple_tile_registration, step 5: concatenation of the lines into
\* empty_image (stitching.py 677-691), for one nb_image.  Every line image
\* out_slice has ref_height rows and the width of empty_image.

\* Rows lo:hi (Python bounds) of an array of n rows, as row numbers.
RowsOf(n, lo, hi) == PySlice(PyRange(0, n), lo, hi)

\* The rows of empty_image that line nb_line is assigned to (lines 685, 688-689).
TargetRows(canvas, n, height, overlap) ==
    IF n = 0
    THEN RowsOf(canvas, 0, height - overlap \div 2)
    ELSE RowsOf(canvas,
                n * (height - overlap \div 2) - ((n - 1) * overlap) \div 2,
                n * height - ((2 * n + 1) * overlap) \div 2 + height)

\* The rows of out_slice that are assigned (lines 686, 690).
SourceRows(n, height, overlap) ==
    IF n = 0
    THEN RowsOf(height, 0, height - overlap \div 2)
    ELSE RowsOf(height, overlap \div 2, height - overlap \div 2)

\* numpy assigns when the shapes agree or the source has one row to broadcast.
ShapesAgree(target, source) == Len(source) = Len(target) \/ Len(source) = 1

Assign(image, target, source, n) ==
    [i \in 1..Len(image) |->
        IF \E k \in 1..Len(target) : target[k] = i - 1
        THEN LET k == CHOOSE k \in 1..Len(target) : target[k] = i - 1
             IN  image[i] \cup {[line |-> n,
                                 row |-> source[IF Len(source) = 1 THEN 1 ELSE k]]}
        ELSE image[i]]

\* number_of_lines * ref_height - supposed_overlap * (number_of_lines - 1)
CanvasHeight(lines, height, overlap) == lines * height - overlap * (lines - 1)

ConcatInit ==
    /\ starting_position = "top-left"
    /\ number_of_lines \in 1..MaxLines
    /\ number_of_columns = 1
    /\ new_list_of_folders = <<>>
    /\ grid_pc = "idle"
    /\ ref_height \in 1..MaxHeight
    /\ supposed_overlap \in 0..MaxOverlap
    /\ concat_nb_line = 0
    /\ empty_image = <<>>
    /\ concat_pc = "call"

ConcatIdle ==
    /\ ref_height = 1
    /\ supposed_overlap = 0
    /\ concat_nb_line = 0
    /\ empty_image = <<>>
    /\ concat_pc = "idle"

\* Line 678: np.zeros refuses a negative dimension.
CreateCanvas ==
    /\ concat_pc = "call"
    /\ LET canvas == CanvasHeight(number_of_lines, ref_height, supposed_overlap)
       IN  IF canvas < 0
           THEN concat_pc' = "ValueError" /\ UNCHANGED empty_image
           ELSE /\ concat_pc' = "concat"
                /\ empty_image' = [i \in 1..canvas |-> {}]
    /\ UNCHANGED <<ref_height, supposed_overlap, concat_nb_line>>

\* Lines 682-691 for one nb_line; the image is saved after the last line.
ConcatLine ==
    /\ concat_pc = "concat"
    /\ LET target == TargetRows(Len(empty_image), concat_nb_line, ref_height, supposed_overlap)
           source == SourceRows(concat_nb_line, ref_height, supposed_overlap)
       IN  IF ShapesAgree(target, source)
           THEN /\ empty_image' = Assign(empty_image, target, source, concat_nb_line)
                /\ concat_nb_line' = concat_nb_line + 1
                /\ concat_pc' = IF concat_nb_line + 1 = number_of_lines
                                THEN "saved" ELSE "concat"
           ELSE /\ concat_pc' = "ValueError"
                /\ UNCHANGED <<empty_image, concat_nb_line>>
    /\ UNCHANGED <<ref_height, supposed_overlap>>

----------------------------------------------------------------------------
\* multiple_tile_registration, steps 3 and 4: registration of neighbouring
\* lines and displacement of every line but the first (stitching.py 636-658).

\* What compute_two_tiles_registration can return for two neighbouring lines:
\* a translation (x, y, z) in thousandths.
LineRegistrations == {<<0, 0, 0>>, <<1500, -2500, 500>>, <<-3120, 126, 2120>>}

\* apply_itk_transformation with a translation: the volume is displaced by the
\* offset of the translation, on top of the displacement it has.
apply_itk_transformation(displacement, transformation) ==
    <<displacement[1] + transformation[1],
      displacement[2] + transformation[2],
      displacement[3] + transformation[3]>>

\* Line 655: range(nb_line + 1), the number of transformations applied to
\* combined_line_(nb_line + 1).
TransformationsForMutant(n) == n

TransformationsFor(n) == n + 1

LinesInit ==
    /\ starting_position = "top-left"
    /\ number_of_lines \in 1..MaxLines
    /\ number_of_columns = 1
    /\ new_list_of_folders = <<>>
    /\ grid_pc = "idle"
    /\ nb_of_slices = 0
    /\ integer_values_for_offset \in BOOLEAN
    /\ list_of_transformations = <<>>
    /\ registered_z = <<>>
    /\ nb_line = 0
    /\ list_of_z_offset = <<>>
    /\ min_offset = 0
    /\ row_slices = 0
    /\ found_folders = 0
    /\ row_pc = "idle"
    /\ line_transformations = <<>>
    /\ registered_line_nb = 0
    /\ nb_transformation = 0
    /\ line_displacement = <<0, 0, 0>>
    /\ registered_lines = <<>>
    /\ lines_pc = "register"

LinesIdle ==
    /\ line_transformations = <<>>
    /\ registered_line_nb = 0
    /\ nb_transformation = 0
    /\ line_displacement = <<0, 0, 0>>
    /\ registered_lines = <<>>
    /\ lines_pc = "idle"

\* Lines 638-650 for one nb_line: lines nb_line and nb_line + 1 are registered.
RegisterLinePair ==
    /\ lines_pc = "register"
    /\ Len(line_transformations) < number_of_lines - 1
    /\ \E transformation \in LineRegistrations :
           line_transformations' =
               Append(line_transformations,
                      RoundedOffset(transformation, integer_values_for_offset))
    /\ UNCHANGED <<registered_line_nb, nb_transformation, line_displacement,
                   registered_lines, lines_pc>>

\* The end of the loop of line 638.
StartLines ==
    /\ lines_pc = "register"
    /\ Len(line_transformations) = number_of_lines - 1
    /\ lines_pc' = IF number_of_lines - 1 > 0 THEN "open" ELSE "registered"
    /\ UNCHANGED <<line_transformations, registered_line_nb, nb_transformation,
                   line_displacement, registered_lines>>

\* Line 654: combined_line_(nb_line + 1) is opened.
OpenLine ==
    /\ lines_pc = "open"
    /\ line_displacement' = <<0, 0, 0>>
    /\ nb_transformation' = 0
    /\ lines_pc' = "apply"
    /\ UNCHANGED <<line_transformations, registered_line_nb, registered_lines>>

\* Lines 655-656, one pass.
ApplyTransformation ==
    /\ lines_pc = "apply"
    /\ nb_transformation < TransformationsFor(registered_line_nb)
    /\ line_displacement' =
           apply_itk_transformation(line_displacement,
                                    line_transformations[nb_transformation + 1])
    /\ nb_transformation' = nb_transformation + 1
    /\ UNCHANGED <<line_transformations, registered_line_nb, registered_lines, lines_pc>>

\* Line 657: the line is saved as registered_line_(nb_line).
SaveLine ==
    /\ lines_pc = "apply"
    /\ nb_transformation = TransformationsFor(registered_line_nb)
    /\ registered_lines' = Append(registered_lines, line_displacement)
    /\ registered_line_nb' = registered_line_nb + 1
    /\ lines_pc' = IF registered_line_nb + 1 < number_of_lines - 1
                   THEN "open" ELSE "registered"
    /\ UNCHANGED <<line_transformations, nb_transformation, line_displacement>>

----------------------------------------------------------------------------
\* resampling.py: conversion_from_uint16_to_float32 (6-18) and
\* conversion_from_float32_to_uint16 (21-33), on one pixel.  A float is kept as
\* an exact fraction with denominator 65535; the rounding of float32 is left out.

Uint16Max == 65535

\* Line 18: (image / 65535) * (max_value - min_value) - min_value, times 65535.
conversion_from_uint16_to_float32(pixel, low, high) ==
    pixel * (high - low) - low * Uint16Max

\* int() of the fraction p / q (q > 0): truncation towards zero.
Truncated(p, q) == IF p >= 0 THEN p \div q ELSE -((-p) \div q)

\* Line 32: (image - min_value) / (max_value - min_value) * 65535, truncated;
\* the image is given by its numerator over 65535.
Rescaled16(numerator, low, high) == Truncated(numerator - low * Uint16Max, high - low)

\* Line 33, astype(np.uint16): the value itself when it fits 16 bits.  The cast
\* of a float outside 0..65535 is undefined in C; the builds of numpy give the
\* value modulo 2^16, or saturate.
conversion_from_float32_to_uint16(numerator, low, high) ==
    LET value == Rescaled16(numerator, low, high)
    IN  IF value >= 0 /\ value <= Uint16Max THEN {value}
        ELSE {value % (Uint16Max + 1), 0, Uint16Max}

Pixels16 == {0, 1, 32768, 65534, Uint16Max}

ConvertInit ==
    /\ image_pixel \in Pixels16
    /\ min_value \in (-MaxValue)..MaxValue
    /\ max_value \in (-MaxValue)..MaxValue
    /\ min_value < max_value
    /\ float_image = 0
    /\ uint16_image = 0
    /\ convert_pc = "uint16"

ConvertIdle ==
    /\ image_pixel = 0
    /\ min_value = 0
    /\ max_value = 1
    /\ float_image = 0
    /\ uint16_image = 0
    /\ convert_pc = "idle"

ToFloat32 ==
    /\ convert_pc = "uint16"
    /\ float_image' = conversion_from_uint16_to_float32(image_pixel, min_value, max_value)
    /\ convert_pc' = "float32"
    /\ UNCHANGED <<image_pixel, min_value, max_value, uint16_image>>

ToUint16 ==
    /\ convert_pc = "float32"
    /\ uint16_image' \in conversion_from_float32_to_uint16(float_image, min_value, max_value)
    /\ convert_pc' = "back"
    /\ UNCHANGED <<image_pixel, min_value, max_value, float_image>>

----------------------------------------------------------------------------
\* two_dimensions_stitching (lines 366-426).  A shape is [y |-> shape[0],
\* x |-> shape[1]]; supposed_offset is the list [x, y], so supposed_offset[0] is
\* offset[1] here and supposed_offset[1] is offset[2].

Abs(v) == IF v < 0 THEN -v ELSE v

\* The number of indices a[lo:hi] selects on an axis of length n.
SliceLength(n, lo, hi) == Max(PyBound(n, hi) - PyBound(n, lo), 0)

\* numpy's rule for target[...] = source on two axes: each axis of the source
\* has the target's length or length 1.
Broadcasts(target, source) ==
    /\ source.y = target.y \/ source.y = 1
    /\ source.x = target.x \/ source.x = 1

\* Lines 396-399: int(2*ref - moving + int(parameter) + abs(initial)), the
\* solved parameter being given in half pixels.
OutputSize(ref, moving, parameter, initial) ==
    2 * ref - moving + IntHalf(parameter) + Abs(initial)

\* The four conditions of lines 406, 411, 416 and 421.
PlacementCondition(case, offset) ==
    CASE case = 1 -> Abs(offset[2]) > Abs(offset[1]) /\ offset[2] > 0
      [] case = 2 -> Abs(offset[1]) < Abs(offset[2]) /\ offset[2] < 0
      [] case = 3 -> Abs(offset[1]) > Abs(offset[2]) /\ offset[1] > 0
      [] case = 4 -> Abs(offset[2]) < Abs(offset[1]) /\ offset[1] < 0

\* The if / elif chain: the first condition that holds, 0 when none does.
PlacementCase(offset) ==
    IF \E case \in 1..4 : PlacementCondition(case, offset)
    THEN CHOOSE case \in 1..4 :
            /\ PlacementCondition(case, offset)
            /\ \A earlier \in 1..(case - 1) : ~PlacementCondition(earlier, offset)
    ELSE 0

\* The slice of output_image that receives ref_image in each branch.
RefTarget(case, output, ref) ==
    CASE case = 1 -> [y |-> SliceLength(output.y, output.y - ref.y, output.y), x |-> output.x]
      [] case = 2 -> [y |-> SliceLength(output.y, 0, ref.y), x |-> output.x]
      [] case = 3 -> [y |-> output.y, x |-> SliceLength(output.x, output.x - ref.x, output.x)]
      [] case = 4 -> [y |-> output.y, x |-> SliceLength(output.x, 0, ref.x)]

\* The slice of output_image that receives the moving image in each branch.
MovingTarget(case, output, ref) ==
    CASE case = 1 -> [y |-> SliceLength(output.y, 0, output.y - ref.y), x |-> output.x]
      [] case = 2 -> [y |-> SliceLength(output.y, ref.y, output.y), x |-> output.x]
      [] case = 3 -> [y |-> output.y, x |-> SliceLength(output.x, 0, output.x - ref.x)]
      [] case = 4 -> [y |-> output.y, x |-> SliceLength(output.x, ref.x, output.x)]

\* The slice of the moving image that is copied: moving_image[0:y_difference, :]
\* or moving_image[:, 0:x_difference].
MovingSource(case, output, ref, moving) ==
    IF case \in {1, 2}
    THEN [y |-> SliceLength(moving.y, 0, output.y - ref.y), x |-> moving.x]
    ELSE [y |-> moving.y, x |-> SliceLength(moving.x, 0, output.x - ref.x)]

Shapes == [y : 1..MaxSide, x : 1..MaxSide]

PlaceInit ==
    /\ supposed_offset \in ((-MaxOffset)..MaxOffset) \X ((-MaxOffset)..MaxOffset)
    /\ ref_image_shape \in Shapes
    /\ moving_image_shape \in Shapes
    /\ transformation_parameters \in ((-MaxShift)..MaxShift) \X ((-MaxShift)..MaxShift)
    /\ output_image_shape = [y |-> 0, x |-> 0]
    /\ placement_case = 0
    /\ ref_written = FALSE
    /\ place_pc = "call"

PlaceIdle ==
    /\ supposed_offset = <<0, 0>>
    /\ ref_image_shape = [y |-> 0, x |-> 0]
    /\ moving_image_shape = [y |-> 0, x |-> 0]
    /\ transformation_parameters = <<0, 0>>
    /\ output_image_shape = [y |-> 0, x |-> 0]
    /\ placement_case = 0
    /\ ref_written = FALSE
    /\ place_pc = "idle"

\* Lines 396-404: the size of the canvas and np.zeros, which raises ValueError
\* on a negative dimension.
CreateOutput ==
    /\ place_pc = "call"
    /\ LET output_x_size == OutputSize(ref_image_shape.x, moving_image_shape.x,
                                       transformation_parameters[1], supposed_offset[1])
           output_y_size == OutputSize(ref_image_shape.y, moving_image_shape.y,
                                       transformation_parameters[2], supposed_offset[2])
       IN  /\ output_image_shape' = [y |-> output_y_size, x |-> output_x_size]
           /\ place_pc' = IF output_x_size < 0 \/ output_y_size < 0
                          THEN "ValueError" ELSE "zeros"
    /\ UNCHANGED <<supposed_offset, ref_image_shape, moving_image_shape,
                   transformation_parameters, placement_case, ref_written>>

\* Lines 406-426: the branch, its two slice assignments (ref_image first, each
\* raising ValueError when the shapes do not broadcast) and the return.
PlaceImages ==
    /\ place_pc = "zeros"
    /\ LET case == PlacementCase(supposed_offset)
           ref_fits == Broadcasts(RefTarget(case, output_image_shape, ref_image_shape),
                                  ref_image_shape)
           moving_fits == Broadcasts(MovingTarget(case, output_image_shape, ref_image_shape),
                                     MovingSource(case, output_image_shape, ref_image_shape,
                                                  moving_image_shape))
       IN  /\ placement_case' = case
           /\ ref_written' = (case # 0 /\ ref_fits)
           /\ place_pc' = IF case = 0 \/ (ref_fits /\ moving_fits)
                          THEN "return" ELSE "ValueError"
    /\ UNCHANGED <<supposed_offset, ref_image_shape, moving_image_shape,
                   transformation_parameters, output_image_shape>>

----------------------------------------------------------------------------

\* multiple_tile_registration, the slice loop of the row assembly (stitching.py
\* 570-599) for one line, every tile folder holding nb_of_slices files.  The loop
\* starts from what lines 553-567 left: the normalised list_of_z_offset and the
\* number of output slices.

\* What a registration can return here: the values of Registrations and a pair
\* of tiles at the same depth.
ReadRegistrations == Registrations \cup {<<126, -2120, 0>>}

ReadInit ==
    /\ starting_position = "top-left"
    /\ number_of_lines = 1
    /\ number_of_columns \in 1..MaxReadColumns
    /\ new_list_of_folders = <<>>
    /\ grid_pc = "idle"
    /\ nb_of_slices \in 1..MaxReadSlices
    /\ integer_values_for_offset \in BOOLEAN
    /\ \E registered \in [1..(number_of_columns - 1) -> ReadRegistrations] :
           LET kept == [n \in 1..(number_of_columns - 1) |->
                           RoundedOffset(registered[n], integer_values_for_offset)]
               chained == ChainFrom(<<0>>, kept, 0, 0, number_of_columns)
           IN  /\ list_of_transformations = WithoutDepth(kept, 0, number_of_columns)
               /\ registered_z = [n \in 1..(number_of_columns - 1) |-> kept[n][3]]
               /\ min_offset = MinOf(chained)
               /\ list_of_z_offset = Normalized(chained)
               /\ row_slices = RowSlices(nb_of_slices, Normalized(chained))
    /\ nb_line = 0
    /\ found_folders = number_of_columns
    /\ row_pc = "slices"
    /\ slice_nb = 0
    /\ nb_col = 0
    /\ read_indices = {}
    /\ error_line = 0
    /\ read_pc = "column"

ReadIdle ==
    /\ slice_nb = 0
    /\ nb_col = 0
    /\ read_indices = {}
    /\ error_line = 0
    /\ read_pc = "idle"

\* Line 579: current_slice_nb = slice_nb - list_of_z_offset[nb_col], in
\* thousandths of a slice.
CurrentSliceNb == slice_nb * Unit - list_of_z_offset[nb_col + 1]

\* int(current_slice_nb) for a positive current_slice_nb.
IntOf(v) == v \div Unit

\* glob.glob(folder + "\\*")[index] on the nb_of_slices files of a tile.
InFolder(index) == index >= -nb_of_slices /\ index < nb_of_slices

\* The end of a pass of the loop over nb_col (line 578) and of the loop over
\* slice_nb (line 570).
NextTile ==
    IF nb_col + 1 < number_of_columns
    THEN /\ nb_col' = nb_col + 1
         /\ slice_nb' = slice_nb
         /\ read_pc' = "column"
    ELSE /\ nb_col' = 0
         /\ slice_nb' = slice_nb + 1
         /\ read_pc' = IF slice_nb + 1 < row_slices THEN "column" ELSE "done"

\* Lines 579-580 when current_slice_nb > 0 does not hold: nothing is read.
SkipTile ==
    /\ read_pc = "column"
    /\ ~(CurrentSliceNb > 0)
    /\ read_indices' = {}
    /\ error_line' = 0
    /\ NextTile
    /\ UNCHANGED <<grid_vars, row_vars>>

\* Lines 581-591, the first tile of the line.  list_of_slices is created anew
\* for every slice_nb, so list_of_slices[0][1] is None and the files
\* int(current_slice_nb) and int(current_slice_nb) + 1 are both opened; line
\* 590 then indexes the two-dimensional empty_slice with three indices.
ReadFirstTile ==
    /\ read_pc = "column"
    /\ CurrentSliceNb > 0
    /\ nb_col = 0
    /\ LET index == IntOf(CurrentSliceNb)
       IN  IF ~InFolder(index)
           THEN /\ read_indices' = {index}
                /\ error_line' = 586
           ELSE /\ read_indices' = {index, index + 1}
                /\ error_line' = IF InFolder(index + 1) THEN 590 ELSE 588
    /\ read_pc' = "IndexError"
    /\ UNCHANGED <<slice_nb, nb_col, grid_vars, row_vars>>

\* Lines 592-599, the other tiles: the same two files are opened.
ReadTile ==
    /\ read_pc = "column"
    /\ CurrentSliceNb > 0
    /\ nb_col # 0
    /\ LET index == IntOf(CurrentSliceNb)
       IN  IF ~InFolder(index)
           THEN /\ read_indices' = {index}
                /\ error_line' = 595
                /\ read_pc' = "IndexError"
                /\ UNCHANGED <<slice_nb, nb_col>>
           ELSE IF ~InFolder(index + 1)
           THEN /\ read_indices' = {index, index + 1}
                /\ error_line' = 596
                /\ read_pc' = "IndexError"
                /\ UNCHANGED <<slice_nb, nb_col>>
           ELSE /\ read_indices' = {index, index + 1}
                /\ error_line' = 0
                /\ NextTile
    /\ UNCHANGED <<grid_vars, row_vars>>

----------------------------------------------------------------------------

\* The specifications.

GridNext == Rearrange /\ UNCHANGED <<stitch_vars, band_vars, row_vars, concat_vars, lines_vars, convert_vars, place_vars, read_vars>>

StitchNext ==
    \/ StitchPair /\ UNCHANGED <<grid_vars, band_vars, row_vars, concat_vars, lines_vars, convert_vars, place_vars, read_vars>>
    \/ StitchExit /\ UNCHANGED <<grid_vars, band_vars, row_vars, concat_vars, lines_vars, convert_vars, place_vars, read_vars>>
    \/ StitchLast /\ UNCHANGED <<grid_vars, band_vars, row_vars, concat_vars, lines_vars, convert_vars, place_vars, read_vars>>

BandNext ==
    \/ CorrelatePlain /\ UNCHANGED <<grid_vars, stitch_vars, row_vars, concat_vars, lines_vars, convert_vars, place_vars, read_vars>>
    \/ CorrelateSegmented /\ UNCHANGED <<grid_vars, stitch_vars, row_vars, concat_vars, lines_vars, convert_vars, place_vars, read_vars>>
    \/ CorrelateMiddle /\ UNCHANGED <<grid_vars, stitch_vars, row_vars, concat_vars, lines_vars, convert_vars, place_vars, read_vars>>

InitStitch == StitchInit /\ GridIdle /\ BandIdle /\ RowIdle /\ ConcatIdle /\ LinesIdle /\ ConvertIdle /\ PlaceIdle /\ ReadIdle

InitBand == BandInit /\ GridIdle /\ StitchIdle /\ RowIdle /\ ConcatIdle /\ LinesIdle /\ ConvertIdle /\ PlaceIdle /\ ReadIdle

SpecBand == InitBand /\ [][BandNext]_vars

RowNext ==
    \/ ListFolders /\ UNCHANGED <<stitch_vars, band_vars, concat_vars, lines_vars, convert_vars, place_vars, read_vars>>
    \/ RegisterPair /\ UNCHANGED <<stitch_vars, band_vars, concat_vars, lines_vars, convert_vars, place_vars, read_vars>>
    \/ StartAssembly /\ UNCHANGED <<stitch_vars, band_vars, concat_vars, lines_vars, convert_vars, place_vars, read_vars>>
    \/ AssembleRow /\ UNCHANGED <<stitch_vars, band_vars, concat_vars, lines_vars, convert_vars, place_vars, read_vars>>

InitRow == RowInit /\ StitchIdle /\ BandIdle /\ ConcatIdle /\ LinesIdle /\ ConvertIdle /\ PlaceIdle /\ ReadIdle

SpecRow == InitRow /\ [][RowNext]_vars

SpecStitch == InitStitch /\ [][StitchNext]_vars

InitGrid == GridInit /\ StitchIdle /\ BandIdle /\ RowIdle /\ ConcatIdle /\ LinesIdle /\ ConvertIdle /\ PlaceIdle /\ ReadIdle

SpecGrid == InitGrid /\ [][GridNext]_vars

ConcatNext ==
    \/ CreateCanvas /\ UNCHANGED <<grid_vars, stitch_vars, band_vars, row_vars, lines_vars, convert_vars, place_vars, read_vars>>
    \/ ConcatLine /\ UNCHANGED <<grid_vars, stitch_vars, band_vars, row_vars, lines_vars, convert_vars, place_vars, read_vars>>

InitConcat == ConcatInit /\ StitchIdle /\ BandIdle /\ RowIdle /\ LinesIdle /\ ConvertIdle /\ PlaceIdle /\ ReadIdle

SpecConcat == InitConcat /\ [][ConcatNext]_vars

LinesNext ==
    \/ RegisterLinePair /\ UNCHANGED <<grid_vars, stitch_vars, band_vars, row_vars, concat_vars, convert_vars, place_vars, read_vars>>
    \/ StartLines /\ UNCHANGED <<grid_vars, stitch_vars, band_vars, row_vars, concat_vars, convert_vars, place_vars, read_vars>>
    \/ OpenLine /\ UNCHANGED <<grid_vars, stitch_vars, band_vars, row_vars, concat_vars, convert_vars, place_vars, read_vars>>
    \/ ApplyTransformation /\ UNCHANGED <<grid_vars, stitch_vars, band_vars, row_vars, concat_vars, convert_vars, place_vars, read_vars>>
    \/ SaveLine /\ UNCHANGED <<grid_vars, stitch_vars, band_vars, row_vars, concat_vars, convert_vars, place_vars, read_vars>>

InitLines == LinesInit /\ StitchIdle /\ BandIdle /\ ConcatIdle /\ ConvertIdle /\ PlaceIdle /\ ReadIdle

SpecLines == InitLines /\ [][LinesNext]_vars

ConvertNext ==
    \/ ToFloat32 /\ UNCHANGED <<grid_vars, stitch_vars, band_vars, row_vars, concat_vars, lines_vars, place_vars, read_vars>>
    \/ ToUint16 /\ UNCHANGED <<grid_vars, stitch_vars, band_vars, row_vars, concat_vars, lines_vars, place_vars, read_vars>>

InitConvert ==
    ConvertInit /\ GridIdle /\ StitchIdle /\ BandIdle /\ RowIdle /\ ConcatIdle /\ LinesIdle /\ PlaceIdle
        /\ ReadIdle

SpecConvert == InitConvert /\ [][ConvertNext]_vars

PlaceNext ==
    \/ CreateOutput /\ UNCHANGED <<grid_vars, stitch_vars, band_vars, row_vars, concat_vars, lines_vars, convert_vars, read_vars>>
    \/ PlaceImages /\ UNCHANGED <<grid_vars, stitch_vars, band_vars, row_vars, concat_vars, lines_vars, convert_vars, read_vars>>

InitPlace ==
    PlaceInit /\ GridIdle /\ StitchIdle /\ BandIdle /\ RowIdle /\ ConcatIdle /\ LinesIdle
        /\ ConvertIdle /\ ReadIdle

SpecPlace == InitPlace /\ [][PlaceNext]_vars

ReadNext ==
    \/ SkipTile /\ UNCHANGED <<stitch_vars, band_vars, concat_vars, lines_vars, convert_vars, place_vars>>
    \/ ReadFirstTile /\ UNCHANGED <<stitch_vars, band_vars, concat_vars, lines_vars, convert_vars, place_vars>>
    \/ ReadTile /\ UNCHANGED <<stitch_vars, band_vars, concat_vars, lines_vars, convert_vars, place_vars>>

InitRead ==
    ReadInit /\ StitchIdle /\ BandIdle /\ ConcatIdle /\ LinesIdle /\ ConvertIdle /\ PlaceIdle

SpecRead == InitRead /\ [][ReadNext]_vars

----------------------------------------------------------------------------
\* C1: for every grid size and every starting corner the returned list has
\* length rows*cols and is a permutation of 0..rows*cols-1 (nothing skipped,
\* nothing duplicated).
C1_Permutation ==
    grid_pc = "return" =>
        /\ Len(new_list_of_folders) = number_of_lines * number_of_columns
        /\ {new_list_of_folders[i] : i \in 1..Len(new_list_of_folders)}
               = 0..(number_of_lines * number_of_columns - 1)

C1_Witness ==
    /\ grid_pc = "return"
    /\ starting_position = "bottom-right"
    /\ number_of_lines = 3
    /\ number_of_columns = 2
    /\ new_list_of_folders = <<5, 4, 2, 3, 1, 0>>

\* C2: two entries next to each other inside one row of the returned list
\* differ by exactly 1.
C2_LateralAdjacency ==
    grid_pc = "return" =>
        \A r \in 0..(number_of_lines - 1) : \A c \in 0..(number_of_columns - 2) :
            LET a == new_list_of_folders[r * number_of_columns + c + 1]
                b == new_list_of_folders[r * number_of_columns + c + 2]
            IN  a - b \in {-1, 1}

C2_Witness ==
    /\ grid_pc = "return"
    /\ starting_position = "top-right"
    /\ number_of_lines = 2
    /\ number_of_columns = 3
    /\ new_list_of_folders = <<2, 1, 0, 3, 4, 5>>

----------------------------------------------------------------------------
\* Reading the effects of stitch_multiple_folders_into_one.

\* The place of a file in its folder's list (the slice number the code slices by).
SliceIndex(file) == IF flip THEN nb_slices - 1 - file ELSE file

\* Slice s of tile k sits at stack position k * delta_z + s.
StackPosition(r) == r.folder * delta_z + SliceIndex(r.file)

EmittedFrom(k) == {i \in 1..Len(emitted) : emitted[i].folder = k}

\* C3: cut-over mode, look_for_best_slice off, N >= 2 folders, 0 <= delta_z <=
\* nb_slices: no stack position is emitted twice, and at every seam the first
\* slice emitted from tile k+1 sits right after the last slice emitted from
\* tile k.
C3_CutOverSeams ==
    (/\ stitch_pc = "done"
     /\ overlap_mode = 0
     /\ ~look_for_best_slice
     /\ number_of_folders >= 2
     /\ delta_z <= nb_slices)
    =>
    /\ \A i, j \in 1..Len(emitted) :
           i # j => StackPosition(emitted[i]) # StackPosition(emitted[j])
    /\ \A k \in 0..(number_of_folders - 2) :
           \A i \in EmittedFrom(k) : \A j \in EmittedFrom(k + 1) :
               (/\ \A i2 \in EmittedFrom(k) : i2 <= i
                /\ \A j2 \in EmittedFrom(k + 1) : j2 >= j)
               => StackPosition(emitted[j]) = StackPosition(emitted[i]) + 1

\* C4: the first tile is emitted from its slice 0 and the last tile is emitted
\* from its top overlap index through its final slice, inclusive.
C4_OuterSidesToTheEdge ==
    stitch_pc = "done" =>
        /\ EmittedFrom(0) # {} =>
               \E i \in EmittedFrom(0) :
                   /\ SliceIndex(emitted[i].file) = 0
                   /\ \A i2 \in EmittedFrom(0) : i2 >= i
        /\ \A s \in PyBound(nb_slices, top_overlap_index)..(nb_slices - 1) :
               \E i \in EmittedFrom(number_of_folders - 1) :
                   SliceIndex(emitted[i].file) = s

\* C5: with security_band_size <= 0 the call always ends in the fatal
\* configuration error, and nothing has been moved or copied when it does.
C5_NonPositiveBandIsFatal ==
    (security_band_size <= 0 /\ stitch_pc # "loop") =>
        /\ stitch_pc = "sys_exit"
        /\ emitted = <<>>
        /\ moved = {}

\* C6: blended mode with band_average_size = b: the j-th output slice of the
\* blend band is the mean of the j-th slice of the earlier tile's band and the
\* j-th slice of the next tile's band, for every j of the band.
C6_BandIsSlicewiseMean ==
    (/\ stitch_pc = "loop"
     /\ overlap_mode >= 1
     /\ folder_nb >= 1)
    =>
    LET k == folder_nb - 1
        half == IntHalf(band_average_size)
        first == PySlice(SortedFilenames(nb_slices, flip),
                         bottom_overlap_index - half, bottom_overlap_index + half)
        second == PySlice(SortedFilenames(nb_slices, flip),
                          SupposedTop(nb_slices, delta_z) + overlap_index_difference - half,
                          SupposedTop(nb_slices, delta_z) + overlap_index_difference + half)
    IN  \A j \in 1..Min(Len(first), Len(second)) :
            \E r \in band_files :
                /\ r.folder = k
                /\ r.name = first[j]
                /\ r.value = (Pixel(k, first[j]) + Pixel(k + 1, second[j])) \div 2

----------------------------------------------------------------------------
\* Reading the result of look_for_maximum_correlation_band.

\* Slice z of the first image as the correlation sees it: masked when
\* thresholding is on, and with its mean taken off.
Normalised(z) ==
    IF with_segmentation
    THEN CentreMasked(Times(mask[z], first_image[z]), mask[z])
    ELSE CentreAll(first_image[z])

\* No slice is degenerate, and no two slices are the same after normalisation
\* (none is a positive multiple of another once its mean is taken off).
DistinctSlices ==
    /\ \A z \in 1..Len(first_image) :
           ~Normalised(z).nan /\ VarianceP2(Normalised(z).y) > 0
    /\ \A z1, z2 \in 1..Len(first_image) :
           z1 # z2 =>
               LET dot == SumSeq(Times(Normalised(z1).y, Normalised(z2).y))
               IN  ~(/\ dot > 0
                     /\ dot * dot = SumSeq(Times(Normalised(z1).y, Normalised(z1).y))
                                    * SumSeq(Times(Normalised(z2).y, Normalised(z2).y)))

\* C7 as stated: on two identical bands of pairwise distinct, non-degenerate
\* slices the function returns 0 for every band_size >= 1 (looked at where the
\* offsets stay inside the band).
C7_IdenticalBandsGiveZero ==
    (/\ band_pc = "return"
     /\ second_image = first_image
     /\ DistinctSlices
     /\ IntHalf(band_size) <= IntHalf(Len(first_image)))
    => computed_corresponding_slice_nb = 0

\* C7 as amended: on two such identical bands the function returns the number
\* of the band's middle slice, int(nb_slices / 2), for every band_size >= 2
\* whose offsets stay inside the band, and 0 (the candidate that was never
\* filled) for band_size = 1.
C7_IdenticalBandsGiveMiddle ==
    (/\ band_pc = "return"
     /\ second_image = first_image
     /\ DistinctSlices
     /\ IntHalf(band_size) <= IntHalf(Len(first_image)))
    => computed_corresponding_slice_nb
           = (IF band_size >= 2 THEN 2 * IntHalf(Len(first_image)) ELSE 0)

C7_Witness ==
    /\ band_pc = "return"
    /\ first_image = <<(<<1, 2, 3>>), (<<3, 1, 2>>), (<<2, 3, 1>>), (<<2, 1, 3>>)>>
    /\ second_image = first_image
    /\ ~with_segmentation
    /\ band_size = 3
    /\ best_slice_candidates = <<2, 2, 0>>
    /\ computed_corresponding_slice_nb = 4

\* C8: for search radius r one candidate is computed for every offset i in
\* [-r, +r), and the median is taken over exactly those candidates.
C8_OneCandidatePerOffset ==
    band_pc = "return" =>
        /\ {BandOffsets(band_size)[j] : j \in 1..Len(BandOffsets(band_size))}
               = (-band_size)..(band_size - 1)
        /\ Len(best_slice_candidates) = Len(BandOffsets(band_size))

----------------------------------------------------------------------------
\* Reading the row assembly of multiple_tile_registration.

\* The row that was assembled last, and the depth offset its pair
\* (column, column + 1) was registered with.
AssembledLine == nb_line - 1
PairwiseZ(column) == registered_z[AssembledLine * (number_of_columns - 1) + column + 1]

RECURSIVE SumOfPairs(_)
SumOfPairs(k) == IF k = 0 THEN 0 ELSE SumOfPairs(k - 1) + PairwiseZ(k - 1)

----------------------------------------------------------------------------
\* C13: for every grid with rows >= 1 and cols >= 1 (rows = 2, cols = 3 in
\* particular) the bottom-right ordering is the top-left ordering read
\* backwards: row order reversed and the scan inside every row reversed.
C13_BottomRightIsTopLeftBackwards ==
    (grid_pc = "return" /\ starting_position = "bottom-right") =>
        new_list_of_folders
            = Reversed(rearrange_folders_list("top-left", number_of_lines, number_of_columns))

C13_Witness ==
    /\ grid_pc = "return"
    /\ starting_position = "bottom-right"
    /\ number_of_lines = 2
    /\ number_of_columns = 3
    /\ new_list_of_folders = <<3, 4, 5, 2, 1, 0>>
    /\ rearrange_folders_list("top-left", 2, 3) = <<0, 1, 2, 5, 4, 3>>

\* Row r of the serpentine list (before any bottom reordering) of the call that
\* returned.
SerpentineRow(r) ==
    PySlice(Serpentine(starting_position, number_of_lines, number_of_columns),
            r * number_of_columns, r * number_of_columns + number_of_columns)

Increasing(row) == \A c \in 1..(Len(row) - 1) : row[c + 1] = row[c] + 1
Decreasing(row) == \A c \in 1..(Len(row) - 1) : row[c + 1] = row[c] - 1

\* C14: counting rows before any bottom reordering, a left starting corner
\* lists every even row in increasing order and every odd row in decreasing
\* order; a right starting corner has the parity inverted.
C14_SerpentineParity ==
    grid_pc = "return" =>
        \A r \in 0..(number_of_lines - 1) :
            LET left == starting_position \in {"top-left", "bottom-left"}
                forward == IF left THEN r % 2 = 0 ELSE r % 2 = 1
            IN  /\ Len(SerpentineRow(r)) = number_of_columns
                /\ IF forward THEN Increasing(SerpentineRow(r))
                              ELSE Decreasing(SerpentineRow(r))

C14_Witness ==
    /\ grid_pc = "return"
    /\ starting_position = "top-right"
    /\ number_of_lines = 3
    /\ number_of_columns = 3
    /\ Serpentine(starting_position, 3, 3) = <<2, 1, 0, 3, 4, 5, 8, 7, 6>>

----------------------------------------------------------------------------
\* Reading the final concatenation.

\* The lines that wrote row i (0-based) of empty_image.
WritersOf(i) == {w.line : w \in empty_image[i + 1]}

\* C11: the line contributions tile the final canvas (for an overlap no larger
\* than a line is high): every row of the canvas is written by exactly one
\* line, line 0 contributes from its top row on, and the last line contributes
\* through its bottom row.
C11_LinesTileTheCanvas ==
    (concat_pc = "saved" /\ supposed_overlap <= ref_height) =>
        /\ \A i \in 0..(Len(empty_image) - 1) : Cardinality(WritersOf(i)) = 1
        /\ Len(empty_image) > 0 =>
               /\ [line |-> 0, row |-> 0] \in empty_image[1]
               /\ [line |-> number_of_lines - 1, row |-> ref_height - 1]
                      \in empty_image[Len(empty_image)]

\* C12: a tile listing that is empty, or whose length differs from
\* number_of_lines * number_of_columns, is fatal: no registration and no row
\* assembly is performed.
C12_WrongTileCountIsFatal ==
    (row_pc # "idle" /\ found_folders # number_of_lines * number_of_columns) =>
        /\ list_of_transformations = <<>>
        /\ nb_line = 0

----------------------------------------------------------------------------
\* Reading the scores of the two correlation functions.

\* A slice of constant intensity: its standard deviation is zero.
Constant(slice) == \A p \in 1..Len(slice) : slice[p] = slice[1]

\* C15: when a slice of the second image has constant intensity,
\* look_for_maximum_correlation and look_for_maximum_correlation_band give every
\* pair with that slice the score zero instead of dividing by the zero standard
\* deviation.
C15_ZeroDeviationScoresZero ==
    band_pc \in {"return", "return_middle"} =>
        \A z \in 1..Len(normalized_cross_correlations) :
            Constant(second_image[z]) =>
                /\ normalized_cross_correlations[z].kind = "finite"
                /\ normalized_cross_correlations[z].s = 0

\* Every intensity v of an image replaced by a * v + c.
Rescaled(image, a, c) ==
    [z \in 1..Len(image) |-> [p \in 1..Len(image[z]) |-> a * image[z][p] + c]]

Shifts == {-1, 1}

\* C16: the index the correlation functions return does not change when every
\* intensity of one input band is replaced by a * v + c; read here for a = 1
\* and c = -1, +1.  With segmentation the second band is the one replaced, so
\* that the mask, which is computed from the first band, stays the same.
C16_ShiftInvariance ==
    \A c \in Shifts :
        /\ band_pc = "return_middle" =>
               /\ look_for_maximum_correlation(Rescaled(first_image, 1, c), second_image)
                      = best_corresponding_slice_nb
               /\ look_for_maximum_correlation(first_image, Rescaled(second_image, 1, c))
                      = best_corresponding_slice_nb
        /\ (band_pc = "return" /\ ~with_segmentation) =>
               /\ CorrelateBands(Rescaled(first_image, 1, c), second_image, band_size,
                                 FALSE, mask).median2 = computed_corresponding_slice_nb
               /\ CorrelateBands(first_image, Rescaled(second_image, 1, c), band_size,
                                 FALSE, mask).median2 = computed_corresponding_slice_nb
        /\ (band_pc = "return" /\ with_segmentation) =>
               CorrelateBands(first_image, Rescaled(second_image, 1, c), band_size,
                              TRUE, mask).median2 = computed_corresponding_slice_nb

----------------------------------------------------------------------------
\* Reading the displacement of the lines.

\* The translations 0..k-1 composed from the left, ((t0 + t1) + t2) + ..., and
\* from the right, t0 + (t1 + (t2 + ...)).
RECURSIVE ComposedLeft(_, _)
ComposedLeft(list, k) ==
    IF k = 0 THEN <<0, 0, 0>>
    ELSE apply_itk_transformation(ComposedLeft(list, k - 1), list[k])

RECURSIVE ComposedRight(_, _, _)
ComposedRight(list, from, k) ==
    IF from > k THEN <<0, 0, 0>>
    ELSE apply_itk_transformation(list[from], ComposedRight(list, from + 1, k))

\* C17: line k (k >= 1) is displaced by the line-to-line translations 0..k-1
\* applied one after another in that order, and its displacement is the single
\* composed translation, the sum of those offsets, however the composition is
\* grouped.
C17_LineDisplacementIsComposition ==
    /\ lines_pc = "apply" =>
           line_displacement = ComposedLeft(line_transformations, nb_transformation)
    /\ \A k \in 1..Len(registered_lines) :
           /\ registered_lines[k] = ComposedLeft(line_transformations, k)
           /\ registered_lines[k] = ComposedRight(line_transformations, 1, k)
           /\ \A axis \in 1..3 :
                  registered_lines[k][axis]
                      = SumSeq([j \in 1..k |-> line_transformations[j][axis]])

C17_Witness ==
    /\ lines_pc = "registered"
    /\ number_of_lines = 3
    /\ line_transformations = <<(<<1500, -2500, 500>>), (<<-3120, 126, 2120>>)>>
    /\ registered_lines = <<(<<1500, -2500, 500>>), (<<-1620, -2374, 2620>>)>>

----------------------------------------------------------------------------
\* C18: conversion_from_uint16_to_float32 maps 0 to min_value and 65535 to
\* max_value for every min_value < max_value, and
\* conversion_from_float32_to_uint16 with the same parameters maps the results
\* back to 0 and 65535.
C18_EndsMapToMinAndMax ==
    (image_pixel \in {0, Uint16Max} /\ convert_pc \in {"float32", "back"}) =>
        /\ float_image = (IF image_pixel = 0 THEN min_value ELSE max_value) * Uint16Max
        /\ convert_pc = "back" => uint16_image = image_pixel


\* The placement conditions that hold for an offset.
SelectedCases(offset) == {case \in 1..4 : PlacementCondition(case, offset)}

\* The call reached the placement branches (np.zeros did not raise).
PlacementRan ==
    /\ place_pc \in {"return", "ValueError"}
    /\ output_image_shape.x >= 0
    /\ output_image_shape.y >= 0

\* C19: for every supposed_offset, the default [0, 0] and the diagonal offsets
\* included, exactly one of the four placement conditions holds and its branch
\* is taken, and a call that returns has written the reference image into the
\* canvas.
C19_ExactlyOnePlacement ==
    PlacementRan =>
        /\ Cardinality(SelectedCases(supposed_offset)) = 1
        /\ placement_case \in 1..4
        /\ place_pc = "return" => ref_written


\* The nominal overlap indices int((nb_slices - delta_z)/2) and its complement.
NominalTop == IntHalf(nb_slices - delta_z)
NominalBottom == nb_slices - NominalTop

\* The entries a step appends to emitted, and the slice numbers they come from.
NewEntries == (Len(emitted) + 1)..Len(emitted')
NewlyEmitted == {SliceIndex(emitted'[i].file) : i \in NewEntries}

\* A pass of the loop in cut-over mode with look_for_best_slice on, for a tile
\* that has a next tile, and the pass for the last tile.
CutOverPass ==
    /\ stitch_pc = "loop"
    /\ stitch_pc' \in {"loop", "done"}
    /\ overlap_mode = 0
    /\ look_for_best_slice
CorrectedPass == CutOverPass /\ folder_nb < number_of_folders - 1
LastPass == CutOverPass /\ folder_nb = number_of_folders - 1

\* C20: in cut-over mode with look_for_best_slice on, the correction d moves
\* only the current tile's boundary: tile k is emitted up to the slice before
\* nominal_bottom + d, from slice 0 for the first tile and from the nominal top
\* index for every later tile whatever the d of the tile before it was, the top
\* index handed to tile k+1 is the nominal one, and what was emitted for the
\* tiles before k stays as it was.
C20_CorrectionMovesOnlyCurrentBoundary ==
    [][/\ CorrectedPass =>
            LET d == overlap_index_difference'
                first == IF folder_nb = 0 THEN 0 ELSE NominalTop
            IN  /\ bottom_overlap_index' = NominalBottom + d
                /\ NewlyEmitted = {s \in 0..(nb_slices - 1) :
                                       first <= s /\ s < NominalBottom + d}
                /\ top_overlap_index' = NominalTop
       /\ (LastPass /\ folder_nb >= 1) =>
            /\ \A s \in NewlyEmitted : s >= NominalTop
            /\ NewlyEmitted # {} => NominalTop \in NewlyEmitted
       /\ CutOverPass =>
            /\ SubSeq(emitted', 1, Len(emitted)) = emitted
            /\ \A i \in NewEntries : emitted'[i].folder = folder_nb
      ]_vars

\* Three tiles of 10 slices, delta_z 0: the first two got the corrections -3 and
\* 2 (slices 0, 1 and 5, 6), and the last starts at the nominal top index 5.
C20_Witness ==
    /\ stitch_pc = "done"
    /\ overlap_mode = 0
    /\ look_for_best_slice
    /\ ~flip
    /\ number_of_folders = 3
    /\ nb_slices = 10
    /\ delta_z = 0
    /\ overlap_index_difference = 2
    /\ {emitted[i].file : i \in EmittedFrom(0)} = {0, 1}
    /\ {emitted[i].file : i \in EmittedFrom(1)} = {5, 6}
    /\ \A i \in EmittedFrom(2) : emitted[i].file >= 5
    /\ \E i \in EmittedFrom(2) : emitted[i].file = 5


\* A pass of the loop in blended mode for a tile that has a next tile.
BlendedPass ==
    /\ stitch_pc = "loop"
    /\ overlap_mode # 0
    /\ folder_nb < number_of_folders - 1
    /\ security_band_size > 0

\* The slice numbers of the blend band around the boundary the pass computed:
\* bottom_overlap_index - int(band_average_size/2) up to, not including,
\* bottom_overlap_index + int(band_average_size/2).
InBlendBand(s) ==
    /\ bottom_overlap_index' - IntHalf(band_average_size) <= s
    /\ s < bottom_overlap_index' + IntHalf(band_average_size)

\* C21: in blended mode no slice of the earlier tile's blend band is also
\* copied or moved verbatim (the verbatim range ends at B - b/2), and the next
\* tile's verbatim range starts right after its own blend band.
C21_VerbatimStopsBeforeBlendBand ==
    [][BlendedPass =>
           /\ \A s \in NewlyEmitted : ~InBlendBand(s)
           /\ stitch_pc' \in {"loop", "done"} =>
                  top_overlap_index' = NominalTop + overlap_index_difference'
                                           + IntHalf(band_average_size)
      ]_vars

\* The files average_images_from_filenames opens in a pass: the blend band of
\* the current tile and that of the next one (lines 136-144).
AveragedFiles ==
    LET filenames == SortedFilenames(nb_slices, flip)
        half == IntHalf(band_average_size)
        bottom == PySlice(filenames, bottom_overlap_index' - half,
                          bottom_overlap_index' + half)
        top == PySlice(filenames, NominalTop + overlap_index_difference' - half,
                       NominalTop + overlap_index_difference' + half)
    IN  {<<folder_nb, bottom[j]>> : j \in 1..Len(bottom)}
            \cup {<<folder_nb + 1, top[j]>> : j \in 1..Len(top)}

\* C23: in blended mode with copy_mode 0 no file of the averaging band has been
\* moved to the output folder by the time the average is computed.
C23_AveragedFilesStillPresent ==
    [][(BlendedPass /\ copy_mode = 0 /\ emitted' # emitted) =>
           AveragedFiles \cap moved' = {}
      ]_vars


\* C22: during the row assembly every index a tile's file list is read at,
\* int(slice_nb - offset) and int(slice_nb - offset) + 1, lies within
\* [0, nb_of_slices), whatever the offsets are.
C22_ReadsWithinTile ==
    \A index \in read_indices : 0 <= index /\ index < nb_of_slices

====
